---- MODULE Spec2Model ----
(***************************************************************************)
(* A model of watchexec's run.rs: the debouncer wait_fs, the child-process *)
(* slot (ChildProcess behind Arc<Mutex<..>>), the installed signal         *)
(* callback and ExecHandler's on_manual / on_update policy.                *)
(*                                                                         *)
(* Two specifications share the module.  SpecFs runs wait_fs against a     *)
(* backend that sends events on the channel.  Spec runs one ExecHandler    *)
(* under arbitrary on_manual / on_update calls, signal deliveries and      *)
(* child exits.                                                            *)
(***************************************************************************)
EXTENDS Integers, Sequences, FiniteSets, TLC

(***************************************************************************)
(* Bounds of the model.                                                    *)
(***************************************************************************)
\* events the backend sends in one behaviour
MaxEvents == 3
\* largest debounce duration, in ticks
MaxDebounce == 1
\* on_manual / on_update calls in one behaviour (each spawns at most one child)
MaxCalls == 2

VARIABLES
    \* ---- wait_fs (run.rs 361-414) and its channel ----
    no_meta,      \* args.no_meta
    debounce,     \* args.debounce, in ticks
    rx,           \* events sent and not yet received
    produced,     \* number of events the backend has sent
    fpc,          \* position of wait_fs: "A" (first loop), "B" (second loop), "ret"
    paths,        \* the local `paths`
    cache,        \* the local `cache`: a set of [key, excluded]
    timer,        \* ticks left before the pending recv_timeout gives up
    recvLog,      \* history: the events this call received, with the phase
    waited,       \* history: ticks this call spent blocked in recv_timeout
    \* ---- ExecHandler (run.rs 211-355), its child slot and the callback ----
    once,               \* args.once
    on_busy_update,     \* args.on_busy_update
    signal,             \* self.signal: Option<Signal>
    clear_screen,       \* args.clear_screen
    use_process_group,  \* args.use_process_group
    child_process,      \* the slot: [variant, id]
    proc,               \* the operating system's view of each child
    lock,               \* holder of the slot's mutex across steps: "free" or "main"
    todo,               \* the main thread's remaining steps in the current call
    cur,                \* history of the call in progress
    last,               \* history of the call that returned last
    calls,              \* number of calls made
    pending,            \* the signal the callback thread is handling, or NoSignal
    cbLast,             \* history: what the callback did with the last signal it handled
    \* ---- watch (run.rs 87-145) ----
    run_initially,      \* args.run_initially
    tx,                 \* TRUE while watch still owns its Sender (not moved at 119)
    backend,            \* TRUE while the watcher backend holds its Sender
    wpc,                \* position of watch
    updates             \* history: number of on_update calls watch made

fsVars == <<no_meta, debounce, rx, produced, fpc, paths, cache, timer, recvLog, waited>>

cfgVars == <<once, on_busy_update, signal, clear_screen, use_process_group>>

hVars == <<once, on_busy_update, signal, clear_screen, use_process_group,
           child_process, proc, lock, todo, cur, last, calls, pending, cbLast>>

wVars == <<run_initially, tx, backend, wpc, updates>>

vars == <<no_meta, debounce, rx, produced, fpc, paths, cache, timer, recvLog, waited,
          once, on_busy_update, signal, clear_screen, use_process_group,
          child_process, proc, lock, todo, cur, last, calls, pending, cbLast,
          run_initially, tx, backend, wpc, updates>>

(***************************************************************************)
(* Events and PathOps.                                                     *)
(***************************************************************************)
NoPath == "NoPath"
NoCookie == 0
NoOp == "NoOp"
OpErr == "OpErr"

Paths == {"a", "b", "x"}
ExcludedPaths == {"x"}
OpKinds == {"WRITE", "META", "RENAME"}

\* Event { path: Option<PathBuf>, op: Result<Op>, cookie: Option<u32> }.
\* The backend's alphabet: an event without a path; every path with a write
\* and a metadata change; both halves of a rename (cookie 1) on the two
\* watched paths; on path a also a rename without cookie and a failed op.
Events ==
    {[path |-> NoPath, op |-> "WRITE", cookie |-> NoCookie]}
    \cup {[path |-> p, op |-> o, cookie |-> NoCookie] : p \in Paths, o \in {"WRITE", "META"}}
    \cup {[path |-> p, op |-> "RENAME", cookie |-> 1] : p \in Paths \ ExcludedPaths}
    \cup {[path |-> "a", op |-> o, cookie |-> NoCookie] : o \in {"RENAME", OpErr}}

\* Result::ok on the event's op: an error becomes None
OpOk(op) == IF op = OpErr THEN NoOp ELSE op

\* PathOp::new(path, e.op.ok(), e.cookie)
PathOpNew(path, op, cookie) == [path |-> path, op |-> op, cookie |-> cookie]

\* PathOp::is_meta
is_meta(op) == op = "META"

\* NotificationFilter::is_excluded
is_excluded(path) == path \in ExcludedPaths

\* cache.contains_key(&pathop)
ContainsKey(c, pathop) == \E ent \in c : ent.key = pathop

\* cache.insert(pathop.clone(), excluded)
CacheInsert(c, pathop, excluded) ==
    {ent \in c : ent.key # pathop} \cup {[key |-> pathop, excluded |-> excluded]}

\* a push at the front instead of the back
PushFront(ps, pathop) == <<pathop>> \o ps

\* paths.push(pathop)
Push(ps, pathop) == Append(ps, pathop)

(***************************************************************************)
(* wait_fs, first loop (372-392): one received event.                      *)
(***************************************************************************)
\* 375-379: the event is skipped before the cache is consulted
MetaSkipA(nm, pathop) == pathop.op # NoOp /\ nm /\ is_meta(pathop.op)

\* 384-386
CacheAfterA(c, pathop, excluded) ==
    IF ~ContainsKey(c, pathop) THEN CacheInsert(c, pathop, excluded) ELSE c

\* the first loop left on any cached event, excluded or not
LeavesAAlways(excluded) == TRUE

\* 388-391: push and break
LeavesA(excluded) == ~excluded

\* the second loop without its cache lookup
SkipBNever(c, pathop) == FALSE

\* 397-401: the second loop skips a PathOp the cache already holds
SkipB(c, pathop) == ContainsKey(c, pathop)

\* the second loop without its filter test
PathsAfterBUnfiltered(ps, pathop, excluded) == Push(ps, pathop)

\* 407-409
PathsAfterB(ps, pathop, excluded) == IF ~excluded THEN Push(ps, pathop) ELSE ps

\* a timeout one tick too long
TimeoutOfPlusOne(d) == d + 1

\* 396: recv_timeout(debounce) starts a fresh timeout
TimeoutOf(d) == d

Logged(e, phase) == [ev |-> e, phase |-> phase]

\* the backend thread sends an event
Produce ==
    /\ UNCHANGED <<hVars, wVars>>
    /\ produced < MaxEvents
    /\ \E e \in Events : rx' = Append(rx, e)
    /\ produced' = produced + 1
    /\ UNCHANGED <<no_meta, debounce, fpc, paths, cache, timer, recvLog, waited>>

\* 371-392: rx.recv() returned an event in the first loop
WaitFsRecvA ==
    /\ UNCHANGED <<hVars, wVars>>
    /\ fpc = "A"
    /\ rx # <<>>
    /\ LET e == Head(rx)
           pathop == PathOpNew(e.path, OpOk(e.op), e.cookie)
           excluded == is_excluded(e.path)
       IN  /\ rx' = Tail(rx)
           /\ recvLog' = Append(recvLog, Logged(e, "A"))
           /\ IF e.path = NoPath \/ MetaSkipA(no_meta, pathop)
              THEN UNCHANGED <<fpc, paths, cache, timer>>
              ELSE /\ cache' = CacheAfterA(cache, pathop, excluded)
                   /\ IF LeavesA(excluded)
                      THEN /\ paths' = Push(paths, pathop)
                           /\ fpc' = "B"
                           /\ timer' = TimeoutOf(debounce)
                      ELSE UNCHANGED <<fpc, paths, timer>>
    /\ UNCHANGED <<no_meta, debounce, produced, waited>>

\* 396-410: rx.recv_timeout(debounce) returned an event
WaitFsRecvB ==
    /\ UNCHANGED <<hVars, wVars>>
    /\ fpc = "B"
    /\ rx # <<>>
    /\ LET e == Head(rx)
           pathop == PathOpNew(e.path, OpOk(e.op), e.cookie)
           excluded == is_excluded(e.path)
       IN  /\ rx' = Tail(rx)
           /\ recvLog' = Append(recvLog, Logged(e, "B"))
           /\ timer' = TimeoutOf(debounce)
           /\ IF e.path = NoPath \/ SkipB(cache, pathop)
              THEN UNCHANGED <<paths, cache>>
              ELSE /\ cache' = CacheInsert(cache, pathop, excluded)
                   /\ paths' = PathsAfterB(paths, pathop, excluded)
    /\ UNCHANGED <<no_meta, debounce, produced, fpc, waited>>

\* time passes while recv_timeout is blocked on the empty channel
WaitFsTick ==
    /\ UNCHANGED <<hVars, wVars>>
    /\ fpc = "B"
    /\ rx = <<>>
    /\ timer > 0
    /\ timer' = timer - 1
    /\ waited' = waited + 1
    /\ UNCHANGED <<no_meta, debounce, rx, produced, fpc, paths, cache, recvLog>>

\* 396, 413: recv_timeout timed out; wait_fs returns paths
WaitFsTimeout ==
    /\ UNCHANGED <<hVars, wVars>>
    /\ fpc = "B"
    /\ rx = <<>>
    /\ timer = 0
    /\ fpc' = "ret"
    /\ UNCHANGED <<no_meta, debounce, rx, produced, paths, cache, timer, recvLog, waited>>

\* 134-136: the watch loop calls wait_fs again, with fresh locals
WaitFsCall ==
    /\ UNCHANGED <<hVars, wVars>>
    /\ fpc = "ret"
    /\ fpc' = "A"
    /\ paths' = <<>>
    /\ cache' = {}
    /\ recvLog' = <<>>
    /\ waited' = 0
    /\ timer' = 0
    /\ UNCHANGED <<no_meta, debounce, rx, produced>>

(***************************************************************************)
(* The child slot and the operating system's processes.                    *)
(*                                                                         *)
(* Every call the source treats as fallible (try_wait, wait, kill, signal, *)
(* spawn, clearscreen::clear) can return Err here, leaving the child as it *)
(* was; what the source does with that Err (?, .ok(), unwrap_or_else) is   *)
(* then modelled as written.                                               *)
(***************************************************************************)
NoSignal == "NoSignal"
Signals == {"SIGCHLD", "SIGTERM", "SIGUSR1"}
Policies == {"DoNothing", "Queue", "Restart", "Signal"}

ProcIds == 1..MaxCalls

\* ChildProcess::None, the Default
NoChild == [variant |-> "None", id |-> 0]

IsRunningProc(pr, id) == id \in ProcIds /\ pr[id] = "running"

Alive(pr) == {i \in ProcIds : pr[i] = "running"}

\* ChildProcess::is_running (192-199): try_wait reaps a child that has exited
IsRunningOutcomes(slot, pr) ==
    IF slot.variant = "None" THEN {[res |-> "false", proc |-> pr]}
    ELSE CASE pr[slot.id] = "running" ->
                {[res |-> "true", proc |-> pr], [res |-> "Err", proc |-> pr]}
           [] pr[slot.id] = "zombie" ->
                {[res |-> "false", proc |-> [pr EXCEPT ![slot.id] = "reaped"]],
                 [res |-> "Err", proc |-> pr]}
           [] OTHER -> {[res |-> "false", proc |-> pr]}

\* ChildProcess::signal (162-175): a running child that gets the signal may
\* die of it or survive it; a reaped plain child is no process any more
SignalOutcomes(slot, pr) ==
    IF slot.variant = "None" THEN {[res |-> "Ok", proc |-> pr]}
    ELSE {[res |-> "Err", proc |-> pr]} \cup
         CASE pr[slot.id] = "running" ->
                {[res |-> "Ok", proc |-> pr],
                 [res |-> "Ok", proc |-> [pr EXCEPT ![slot.id] = "zombie"]]}
           [] pr[slot.id] = "zombie" -> {[res |-> "Ok", proc |-> pr]}
           [] OTHER -> IF slot.variant = "Grouped" THEN {[res |-> "Ok", proc |-> pr]} ELSE {}

\* ChildProcess::kill (177-190)
KillOutcomes(slot, pr) ==
    IF slot.variant = "None" THEN {[res |-> "Ok", proc |-> pr]}
    ELSE {[res |-> "Err", proc |-> pr]} \cup
         IF pr[slot.id] = "running"
         THEN {[res |-> "Ok", proc |-> [pr EXCEPT ![slot.id] = "zombie"]]}
         ELSE {[res |-> "Ok", proc |-> pr]}

\* ChildProcess::wait (201-208): blocks while the child runs, reaps it when
\* it has exited; the empty set means the call is still blocked
WaitOutcomes(slot, pr) ==
    IF slot.variant = "None" THEN {[res |-> "Ok", proc |-> pr]}
    ELSE CASE pr[slot.id] = "running" -> {[res |-> "Err", proc |-> pr]}
           [] pr[slot.id] = "zombie" ->
                {[res |-> "Ok", proc |-> [pr EXCEPT ![slot.id] = "reaped"]],
                 [res |-> "Err", proc |-> pr]}
           [] OTHER -> {[res |-> "Ok", proc |-> pr]}

\* the slot emptied once its child has been reaped
SlotClearedWhenReaped(slot, pr) ==
    IF slot.id \in ProcIds /\ pr[slot.id] = "reaped" THEN NoChild ELSE slot

\* 192-208: is_running and wait take &mut self for try_wait() and wait() on
\* the handle and never assign the variant: the slot keeps the child whatever
\* pr, the processes after the call, has become
SlotKept(slot, pr) == slot

\* the kill of spawn doing nothing to the previous child
SpawnKillSkipped(slot, pr) == {[res |-> "Ok", proc |-> pr]}

\* 259-260: spawn locks the slot and kills the previous child, dropping the
\* result with .ok(), before it creates the new process
SpawnKill(slot, pr) == KillOutcomes(slot, pr)

\* the callback forwarding SIGCHLD like any other signal
CallbackReapsNever(sig) == FALSE

\* 230-236: the callback answers SIGCHLD with is_running().ok() and returns
CallbackReaps(sig) == sig = "SIGCHLD"

\* what the callback did: nothing yet
NoCallback == [sig |-> NoSignal, op |-> "none", res |-> "none"]

\* 273-277: the variant the new child is stored as
SpawnedSlot(grp, id) == [variant |-> IF grp THEN "Grouped" ELSE "Ungrouped", id |-> id]

(***************************************************************************)
(* ExecHandler: the main thread's steps.                                   *)
(***************************************************************************)
NoCall == [fn |-> "none"]

LogEntry(op, id, sig, res, hit) == [op |-> op, id |-> id, sig |-> sig, res |-> res, hit |-> hit]

\* 308: self.signal.unwrap_or(Signal::SIGTERM)
UpdateSignal(sg) == IF sg = NoSignal THEN "SIGTERM" ELSE sg

\* the once block without its wait
OnceTailNoWait(o, sg) ==
    IF o THEN (IF sg # NoSignal THEN <<"once_signal">> ELSE <<>>) \o <<"ret_false">>
    ELSE <<"ret_true">>

\* 342-353: the once block and the return value
OnceTail(o, sg) ==
    IF o THEN (IF sg # NoSignal THEN <<"once_signal">> ELSE <<>>) \o <<"wait", "ret_false">>
    ELSE <<"ret_true">>

\* Queue and Restart spawning without waiting for the running child
DispatchNoWait(running, policy) ==
    CASE ~running -> <<"spawn">>
      [] policy = "Signal" -> <<"signal">>
      [] policy = "Restart" -> <<"signal", "spawn">>
      [] policy = "Queue" -> <<"spawn">>
      [] OTHER -> <<>>

\* DoNothing treated as Signal
DispatchDoNothingSignals(running, policy) ==
    CASE ~running -> <<"spawn">>
      [] policy = "Signal" -> <<"signal">>
      [] policy = "Restart" -> <<"signal", "wait", "spawn">>
      [] policy = "Queue" -> <<"wait", "spawn">>
      [] OTHER -> <<"signal">>

\* Restart spawning the replacement before it signals and waits
DispatchRestartSpawnsFirst(running, policy) ==
    CASE ~running -> <<"spawn">>
      [] policy = "Signal" -> <<"signal">>
      [] policy = "Restart" -> <<"spawn", "signal", "wait">>
      [] policy = "Queue" -> <<"wait", "spawn">>
      [] OTHER -> <<>>

\* Queue treated as Restart
DispatchQueueSignals(running, policy) ==
    CASE ~running -> <<"spawn">>
      [] policy = "Signal" -> <<"signal">>
      [] policy = "Restart" -> <<"signal", "wait", "spawn">>
      [] policy = "Queue" -> <<"signal", "wait", "spawn">>
      [] OTHER -> <<>>

\* 317-340: match (has_running_processes, self.args.on_busy_update)
Dispatch(running, policy) ==
    CASE ~running -> <<"spawn">>
      [] policy = "Signal" -> <<"signal">>
      [] policy = "Restart" -> <<"signal", "wait", "spawn">>
      [] policy = "Queue" -> <<"wait", "spawn">>
      [] OTHER -> <<>>

\* on_manual spawning whatever once says
ManualStepsAlwaysSpawn(o) == <<"spawn", "ret_true">>

\* 296-303: on_manual's steps
ManualSteps(o) == IF o THEN <<"ret_true">> ELSE <<"spawn", "ret_true">>

Step == IF todo = <<>> THEN "idle" ELSE Head(todo)

\* a handler method is entered
Enter(fn, steps) ==
    /\ todo = <<>>
    /\ calls < MaxCalls
    /\ calls' = calls + 1
    /\ todo' = steps
    /\ cur' = [fn |-> fn, entry |-> child_process,
               entryRunning |-> IsRunningProc(proc, child_process.id),
               observed |-> "none", log |-> <<>>]
    /\ last' = NoCall
    /\ UNCHANGED <<cfgVars, child_process, proc, lock, pending>>

\* 296-303
OnManualCall == Enter("on_manual", ManualSteps(once)) /\ UNCHANGED <<fsVars, cbLast, wVars>>

\* 305-309
OnUpdateCall == Enter("on_update", <<"check">>) /\ UNCHANGED <<fsVars, cbLast, wVars>>

\* 282-287, 309, 317: has_running_process()? and the match on its result
HasRunningProcess ==
    /\ UNCHANGED <<cbLast, wVars>>
    /\ Step = "check"
    /\ lock = "free"
    /\ \E o \in IsRunningOutcomes(child_process, proc) :
        /\ proc' = o.proc
        /\ cur' = [cur EXCEPT !.observed = o.res]
        /\ todo' = IF o.res = "Err" THEN <<"ret_err">>
                   ELSE Dispatch(o.res = "true", on_busy_update) \o OnceTail(once, signal)
        /\ child_process' = SlotKept(child_process, o.proc)
    /\ UNCHANGED <<cfgVars, lock, last, calls, pending, fsVars>>

\* 416-430 (unix): signal_process, called at 324, 328 and 345
SignalProcess ==
    /\ UNCHANGED <<cbLast, wVars>>
    /\ Step \in {"signal", "once_signal"}
    /\ lock = "free"
    /\ LET sig == IF Step = "signal" THEN UpdateSignal(signal) ELSE signal
       IN  \E o \in SignalOutcomes(child_process, proc) :
            /\ proc' = o.proc
            /\ cur' = [cur EXCEPT !.log = Append(@, LogEntry("signal", child_process.id, sig, o.res,
                                                           IsRunningProc(proc, child_process.id)))]
            /\ todo' = IF o.res = "Err" THEN <<"ret_err">> ELSE Tail(todo)
    /\ UNCHANGED <<cfgVars, child_process, lock, last, calls, pending, fsVars>>

\* 432-435: wait_on_process takes the lock and calls wait()
WaitOnProcessLock ==
    /\ UNCHANGED <<cbLast, wVars>>
    /\ Step = "wait"
    /\ lock = "free"
    /\ lock' = "main"
    /\ todo' = <<"waiting">> \o Tail(todo)
    /\ UNCHANGED <<cfgVars, child_process, proc, cur, last, calls, pending, fsVars>>

\* 436: wait() returns and the guard is dropped
WaitOnProcessDone ==
    /\ UNCHANGED <<cbLast, wVars>>
    /\ Step = "waiting"
    /\ \E o \in WaitOutcomes(child_process, proc) :
        /\ proc' = o.proc
        /\ cur' = [cur EXCEPT !.log = Append(@, LogEntry("wait", child_process.id, NoSignal, o.res,
                                                       IsRunningProc(proc, child_process.id)))]
        /\ todo' = IF o.res = "Err" THEN <<"ret_err">> ELSE Tail(todo)
        /\ child_process' = SlotKept(child_process, o.proc)
    /\ lock' = "free"
    /\ UNCHANGED <<cfgVars, last, calls, pending, fsVars>>

\* 254-280: spawn.  The new child's id is the number of the call.  No thread
\* panics while it holds the mutex, so lock() at 259 never finds it poisoned.
Spawn ==
    /\ UNCHANGED <<cbLast, wVars>>
    /\ Step = "spawn"
    /\ lock = "free"
    /\ \/ \* 255-257: clearscreen::clear()? fails
          /\ clear_screen
          /\ cur' = [cur EXCEPT !.log = Append(@, LogEntry("clear", 0, NoSignal, "Err", FALSE))]
          /\ todo' = <<"ret_err">>
          /\ UNCHANGED <<child_process, proc>>
       \/ \E k \in SpawnKill(child_process, proc) :
            LET killed == IF child_process.variant = "None" THEN <<>>
                          ELSE <<LogEntry("kill", child_process.id, "SIGKILL", k.res,
                                          IsRunningProc(proc, child_process.id))>>
            IN  \/ \* 274, 276: group_spawn()? or spawn()? fails after the kill
                   /\ proc' = k.proc
                   /\ cur' = [cur EXCEPT !.log = @ \o killed \o
                                <<LogEntry("spawn", 0, NoSignal, "Err", FALSE)>>]
                   /\ todo' = <<"ret_err">>
                   /\ UNCHANGED child_process
                \/ \* 273-279: the new child is stored in the slot
                   /\ proc' = [k.proc EXCEPT ![calls] = "running"]
                   /\ child_process' = SpawnedSlot(use_process_group, calls)
                   /\ cur' = [cur EXCEPT !.log = @ \o killed \o
                                <<LogEntry("spawn", calls, NoSignal, "Ok", FALSE)>>]
                   /\ todo' = Tail(todo)
    /\ UNCHANGED <<cfgVars, lock, last, calls, pending, fsVars>>

RetOf(step) ==
    CASE step = "ret_true" -> "Ok(true)"
      [] step = "ret_false" -> "Ok(false)"
      [] OTHER -> "Err"

\* 298, 302, 350, 353 and every ?: the method returns to its caller
Return ==
    /\ UNCHANGED <<cbLast, wVars>>
    /\ Step \in {"ret_true", "ret_false", "ret_err"}
    /\ last' = [fn |-> cur.fn, ret |-> RetOf(Step), entry |-> cur.entry,
                entryRunning |-> cur.entryRunning, observed |-> cur.observed,
                log |-> cur.log, slot |-> child_process, alive |-> Alive(proc)]
    /\ cur' = NoCall
    /\ todo' = <<>>
    /\ UNCHANGED <<cfgVars, child_process, proc, lock, calls, pending, fsVars>>

(***************************************************************************)
(* The signal callback (225-245) and the children.                         *)
(***************************************************************************)
\* a signal is delivered to the watcher; the callback is entered
SignalDelivered ==
    /\ UNCHANGED <<cbLast, wVars>>
    /\ pending = NoSignal
    /\ \E sig \in Signals : pending' = sig
    /\ UNCHANGED <<cfgVars, child_process, proc, lock, todo, cur, last, calls, fsVars>>

\* 226-244: the callback takes the lock and handles the signal
CallbackRuns ==
    /\ UNCHANGED wVars
    /\ pending # NoSignal
    /\ lock = "free"
    /\ IF CallbackReaps(pending)
       THEN \* 230-236: is_running().ok()
            \E o \in IsRunningOutcomes(child_process, proc) :
                /\ proc' = o.proc
                /\ child_process' = SlotKept(child_process, o.proc)
                /\ cbLast' = [sig |-> pending, op |-> "is_running", res |-> o.res]
       ELSE \* 239-243: child.signal(sig), the error dropped by unwrap_or_else
            \E o \in SignalOutcomes(child_process, proc) :
                /\ proc' = o.proc
                /\ child_process' = child_process
                /\ cbLast' = [sig |-> pending, op |-> "signal", res |-> o.res]
    /\ pending' = NoSignal
    /\ UNCHANGED <<cfgVars, lock, todo, cur, last, calls, fsVars>>

\* a running child exits on its own
ChildExits ==
    /\ UNCHANGED <<cbLast, wVars>>
    /\ \E i \in ProcIds :
        /\ proc[i] = "running"
        /\ proc' = [proc EXCEPT ![i] = "zombie"]
    /\ UNCHANGED <<cfgVars, child_process, lock, todo, cur, last, calls, pending, fsVars>>

\* wait_fs at rest, for the specification of the handler
FsIdle ==
    /\ no_meta = FALSE
    /\ debounce = 0
    /\ rx = <<>>
    /\ produced = 0
    /\ fpc = "A"
    /\ paths = <<>>
    /\ cache = {}
    /\ timer = 0
    /\ recvLog = <<>>
    /\ waited = 0

\* watch not running, for the specifications of wait_fs and of the handler
WatchIdle ==
    /\ run_initially = FALSE
    /\ tx = TRUE
    /\ backend = TRUE
    /\ wpc = "idle"
    /\ updates = 0

\* 218-252: ExecHandler::new
HandlerNew(o, policy, sg, clr, grp) ==
    /\ once = o
    /\ on_busy_update = policy
    /\ signal = sg
    /\ clear_screen = clr
    /\ use_process_group = grp
    /\ child_process = NoChild
    /\ proc = [i \in ProcIds |-> "unborn"]
    /\ lock = "free"
    /\ todo = <<>>
    /\ cur = NoCall
    /\ last = NoCall
    /\ calls = 0
    /\ pending = NoSignal
    /\ cbLast = NoCallback

InitFs ==
    /\ HandlerNew(FALSE, "DoNothing", NoSignal, FALSE, FALSE)
    /\ WatchIdle
    /\ no_meta \in BOOLEAN
    /\ debounce \in 0..MaxDebounce
    /\ rx = <<>>
    /\ produced = 0
    /\ fpc = "A"
    /\ paths = <<>>
    /\ cache = {}
    /\ timer = 0
    /\ recvLog = <<>>
    /\ waited = 0

NextFs ==
    \/ Produce
    \/ WaitFsRecvA
    \/ WaitFsRecvB
    \/ WaitFsTick
    \/ WaitFsTimeout
    \/ WaitFsCall

SpecFs == InitFs /\ [][NextFs]_vars

Init ==
    /\ FsIdle
    /\ WatchIdle
    /\ \E o \in BOOLEAN, policy \in Policies, sg \in {NoSignal, "SIGUSR1"},
          clr \in BOOLEAN, grp \in BOOLEAN :
        HandlerNew(o, policy, sg, clr, grp)

Next ==
    \/ OnManualCall
    \/ OnUpdateCall
    \/ HasRunningProcess
    \/ SignalProcess
    \/ WaitOnProcessLock
    \/ WaitOnProcessDone
    \/ Spawn
    \/ Return
    \/ SignalDelivered
    \/ CallbackRuns
    \/ ChildExits

Spec == Init /\ [][Next]_vars

\* a step of the main thread inside a handler call; wait() returns once the
\* child has exited
MainStep ==
    \/ HasRunningProcess
    \/ SignalProcess
    \/ WaitOnProcessLock
    \/ WaitOnProcessDone /\ ~IsRunningProc(proc, child_process.id)
    \/ Spawn
    \/ Return

\* The scheduler lets the main thread and the callback thread run whenever
\* they can take a step.  Nothing obliges a child to exit on its own, a
\* signal to arrive or the caller to call again.
SpecLive == Spec /\ WF_vars(MainStep) /\ WF_vars(CallbackRuns)

(***************************************************************************)
(* watch (87-145): the loop that drives wait_fs and the handler, and the   *)
(* channel's senders.  watch creates the channel at 109 and hands          *)
(* tx.clone() to the watcher at 112; tx itself is moved only into the      *)
(* polling watcher of the ENOSPC fallback at 119.  Unless it was moved, tx *)
(* lives until watch returns.  A receive fails only when the queue is      *)
(* empty and no Sender is left.                                            *)
(***************************************************************************)
\* the event the backend sends while watch runs: a write to a watched path
WatchEvents == {[path |-> "a", op |-> "WRITE", cookie |-> NoCookie]}

\* 109-119: no Sender is left, neither watch's tx nor the backend's
Disconnected(own, bk) == ~own /\ ~bk

WatchEnded == {"ok", "err", "panic"}

\* 135, 362-363: wait_fs is called, with fresh locals
WaitFsEnter ==
    /\ fpc' = "A"
    /\ paths' = <<>>
    /\ cache' = {}
    /\ recvLog' = <<>>
    /\ waited' = 0
    /\ timer' = 0
    /\ UNCHANGED <<no_meta, debounce, rx, produced>>

\* 130 with run_initially unset: watch goes to its loop
WatchSkipsManual ==
    /\ wpc = "start"
    /\ ~run_initially
    /\ wpc' = "wait_fs"
    /\ WaitFsEnter
    /\ UNCHANGED <<hVars, run_initially, tx, backend, updates>>

\* 130: handler.on_manual() is called
WatchCallsManual ==
    /\ wpc = "start"
    /\ run_initially
    /\ Enter("on_manual", ManualSteps(once))
    /\ wpc' = "manual"
    /\ UNCHANGED <<fsVars, cbLast, run_initially, tx, backend, updates>>

\* 130-132, 138-140: what watch does with the handler's return value
AfterCall(ret) ==
    CASE ret = "Err" -> "err"
      [] ret = "Ok(false)" -> "ok"
      [] OTHER -> "wait_fs"

\* 130-135: on_manual returned
WatchAfterManual ==
    /\ wpc = "manual"
    /\ todo = <<>> /\ last.fn = "on_manual"
    /\ wpc' = AfterCall(last.ret)
    /\ IF wpc' = "wait_fs" THEN WaitFsEnter ELSE UNCHANGED fsVars
    /\ UNCHANGED <<hVars, run_initially, tx, backend, updates>>

\* 136-138: wait_fs returned paths; handler.on_update(&paths) is called
WatchCallsUpdate ==
    /\ wpc = "wait_fs"
    /\ fpc = "ret"
    /\ Enter("on_update", <<"check">>)
    /\ wpc' = "update"
    /\ updates' = updates + 1
    /\ UNCHANGED <<fsVars, cbLast, run_initially, tx, backend>>

\* 138-144: on_update returned
WatchAfterUpdate ==
    /\ wpc = "update"
    /\ todo = <<>> /\ last.fn = "on_update"
    /\ wpc' = AfterCall(last.ret)
    /\ IF wpc' = "wait_fs" THEN WaitFsEnter ELSE UNCHANGED fsVars
    /\ UNCHANGED <<hVars, run_initially, tx, backend, updates>>

\* the backend sends an event
BackendSends ==
    /\ backend
    /\ produced < MaxEvents
    /\ \E e \in WatchEvents : rx' = Append(rx, e)
    /\ produced' = produced + 1
    /\ UNCHANGED <<no_meta, debounce, fpc, paths, cache, timer, recvLog, waited>>
    /\ UNCHANGED <<hVars, wVars>>

\* the backend goes away and drops every Sender it owns
BackendGoesAway ==
    /\ backend
    /\ backend' = FALSE
    /\ UNCHANGED <<fsVars, hVars, run_initially, tx, wpc, updates>>

\* 371: rx.recv() fails on the empty, disconnected channel; expect panics
WatchRecvFails ==
    /\ wpc = "wait_fs"
    /\ fpc = "A"
    /\ rx = <<>>
    /\ Disconnected(tx, backend)
    /\ wpc' = "panic"
    /\ UNCHANGED <<fsVars, hVars, run_initially, tx, backend, updates>>

\* 396: rx.recv_timeout() fails at once on the empty, disconnected channel;
\* while let ends and wait_fs returns paths
WatchRecvTimeoutFails ==
    /\ wpc = "wait_fs"
    /\ fpc = "B"
    /\ rx = <<>>
    /\ Disconnected(tx, backend)
    /\ fpc' = "ret"
    /\ UNCHANGED <<no_meta, debounce, rx, produced, paths, cache, timer, recvLog, waited>>
    /\ UNCHANGED <<hVars, wVars>>

\* 87-132: watch is entered with a handler and a connected channel; tx is
\* FALSE when 119 moved it into the polling watcher
InitWatch ==
    /\ no_meta = FALSE
    /\ debounce = MaxDebounce
    /\ rx = <<>>
    /\ produced = 0
    /\ fpc = "A"
    /\ paths = <<>>
    /\ cache = {}
    /\ timer = 0
    /\ recvLog = <<>>
    /\ waited = 0
    /\ \E o \in BOOLEAN, policy \in Policies, sg \in {NoSignal, "SIGUSR1"} :
        HandlerNew(o, policy, sg, FALSE, FALSE)
    /\ run_initially \in BOOLEAN
    /\ tx \in BOOLEAN
    /\ backend = TRUE
    /\ wpc = "start"
    /\ updates = 0

NextWatch ==
    \/ WatchSkipsManual
    \/ WatchCallsManual
    \/ WatchAfterManual
    \/ WatchCallsUpdate
    \/ WatchAfterUpdate
    \/ BackendSends
    \/ BackendGoesAway
    \/ WatchRecvFails
    \/ WatchRecvTimeoutFails
    \/ wpc = "wait_fs" /\ WaitFsRecvA
    \/ wpc = "wait_fs" /\ WaitFsRecvB
    \/ wpc = "wait_fs" /\ WaitFsTick
    \/ wpc = "wait_fs" /\ WaitFsTimeout
    \/ wpc \notin WatchEnded /\ HasRunningProcess
    \/ wpc \notin WatchEnded /\ SignalProcess
    \/ wpc \notin WatchEnded /\ WaitOnProcessLock
    \/ wpc \notin WatchEnded /\ WaitOnProcessDone
    \/ wpc \notin WatchEnded /\ Spawn
    \/ wpc \notin WatchEnded /\ Return
    \/ wpc \notin WatchEnded /\ SignalDelivered /\ pending' = "SIGCHLD"
          /\ \E i \in ProcIds : proc[i] = "zombie"
    \/ wpc \notin WatchEnded /\ CallbackRuns
    \/ wpc \notin WatchEnded /\ ChildExits

\* The signals delivered while watch runs are the SIGCHLD of the children
\* that have exited.
SpecWatch == InitWatch /\ [][NextWatch]_vars

(***************************************************************************)
(* Properties of wait_fs, checked under SpecFs.                            *)
(***************************************************************************)
EventPathOp(e) == PathOpNew(e.path, OpOk(e.op), e.cookie)

LogIdx == 1..Len(recvLog)
PathIdx == 1..Len(paths)

\* the k-th received event is one the loop it arrived in lets through
Accepted(k) ==
    LET e == recvLog[k].ev
    IN  /\ e.path # NoPath
        /\ ~is_excluded(e.path)
        /\ ~(recvLog[k].phase = "A" /\ MetaSkipA(no_meta, EventPathOp(e)))

AcceptedOf(p) == {k \in LogIdx : Accepted(k) /\ EventPathOp(recvLog[k].ev) = p}

Min(S) == CHOOSE m \in S : \A n \in S : m <= n

ReceivedInB == {k \in LogIdx : recvLog[k].phase = "B"}
ReceivedInA == {k \in LogIdx : recvLog[k].phase = "A"}

\* C5: with no_meta set, the vector wait_fs returns holds no PathOp whose op
\* is a metadata-only change, in whichever phase the event arrived.
C5_NoMetaReturned ==
    (fpc = "ret" /\ no_meta) =>
        \A i \in PathIdx : ~(paths[i].op # NoOp /\ is_meta(paths[i].op))

\* C6: no PathOp of the vector has a path the filter excludes; an excluded
\* event is appended in neither phase.
C6_NoExcludedPath == \A i \in PathIdx : ~is_excluded(paths[i].path)

\* wait_fs returned after receiving an excluded event in each phase
C6_Witness ==
    /\ fpc = "ret"
    /\ \E k \in ReceivedInA : is_excluded(recvLog[k].ev.path)
    /\ \E k \in ReceivedInB : is_excluded(recvLog[k].ev.path)

\* C7: wait_fs never returns an empty vector: the first loop is left only by
\* a pushed event that has a path, is not excluded and is not a metadata
\* event under no_meta; every event received before it was none of the kind.
C7_NonEmpty ==
    /\ fpc = "A" => (paths = <<>> /\ \A k \in LogIdx : ~Accepted(k))
    /\ fpc \in {"B", "ret"} =>
        /\ Len(paths) >= 1
        /\ ReceivedInA # {}
        /\ LET final == CHOOSE k \in ReceivedInA : \A j \in ReceivedInA : j <= k
           IN  /\ Accepted(final)
               /\ paths[1] = EventPathOp(recvLog[final].ev)
               /\ \A j \in ReceivedInA : j < final => ~Accepted(j)

\* wait_fs returned after its first loop skipped an event without a path and
\* a metadata event under no_meta
C7_Witness ==
    /\ fpc = "ret"
    /\ no_meta
    /\ Len(recvLog) = 3
    /\ recvLog[1].ev.path = NoPath
    /\ recvLog[2].ev.path # NoPath /\ recvLog[2].ev.op = "META"
    /\ recvLog[3].phase = "A"

\* C8: no PathOp (path, op and cookie together) is twice in the returned
\* vector, and every event let through is in it: events differing in path or
\* op are separate entries.
C8_NoDuplicates ==
    fpc = "ret" =>
        /\ \A i, j \in PathIdx : paths[i] = paths[j] => i = j
        /\ \A k \in LogIdx : Accepted(k) => \E i \in PathIdx : paths[i] = EventPathOp(recvLog[k].ev)

\* wait_fs returned both halves of a rename after receiving one of them twice
C8_Witness ==
    /\ fpc = "ret"
    /\ \E i, j \in PathIdx :
        /\ paths[i].cookie = 1 /\ paths[j].cookie = 1
        /\ paths[i].path # paths[j].path
    /\ \E p \in {paths[i] : i \in PathIdx} : Cardinality(AcceptedOf(p)) >= 2

\* C9: the returned vector is in arrival order: x is before y in it only if
\* the first event let through for x was received before the first for y.
C9_ArrivalOrder ==
    fpc = "ret" =>
        \A i, j \in PathIdx :
            i < j =>
                /\ AcceptedOf(paths[i]) # {}
                /\ AcceptedOf(paths[j]) # {}
                /\ Min(AcceptedOf(paths[i])) < Min(AcceptedOf(paths[j]))

\* wait_fs returned two PathOps, the first of which arrived again after the second
C9_Witness ==
    /\ fpc = "ret"
    /\ Len(paths) = 2
    /\ \E k \in AcceptedOf(paths[1]) : \E m \in AcceptedOf(paths[2]) : m < k

\* C10, as stated: with debounce = 0 wait_fs returns exactly one PathOp,
\* whatever the channel holds when the second loop starts.
C10_BatchOfOne == (fpc = "ret" /\ debounce = 0) => Len(paths) = 1

\* C10, amended: with debounce = 0 the second loop never blocks; the batch
\* is the first PathOp plus one per distinct PathOp let through among the
\* events that were queued, so exactly one when none was queued.
C10_ZeroDebounceDrainsQueue ==
    (fpc = "ret" /\ debounce = 0) =>
        /\ waited = 0
        /\ Len(paths) = Cardinality({EventPathOp(recvLog[k].ev) : k \in {n \in LogIdx : Accepted(n)}})
        /\ (ReceivedInB = {} => Len(paths) = 1)

\* wait_fs returned with debounce = 0 and the channel empty throughout the second loop
C10_Witness ==
    /\ fpc = "ret"
    /\ debounce = 0
    /\ ReceivedInB = {}
    /\ Len(paths) = 1

(***************************************************************************)
(* Properties of ExecHandler, checked under Spec.                          *)
(***************************************************************************)
Returned(fn) == last.fn = fn

LogOps(log) == {log[i].op : i \in 1..Len(log)}

\* C1: at most one child spawned by the handler is alive at any instant,
\* under every interleaving of on_manual / on_update calls, callback runs
\* and child exits.
C1_AtMostOneAlive == Cardinality(Alive(proc)) <= 1

C3_SameChildStillRunning ==
    (Returned("on_update") /\ last.entryRunning /\ on_busy_update = "DoNothing") =>
        /\ last.slot = last.entry
        /\ last.entry.id \in last.alive

\* C3, amended: when has_running_process finds the child running, the policy
\* is DoNothing and once is unset, on_update returns Ok(true) having done
\* nothing to the child (no spawn, signal, kill or wait) and the slot holds
\* the same child, for every configured signal.
C3_DoNothingLeavesChild ==
    (/\ Returned("on_update")
     /\ last.observed = "true"
     /\ on_busy_update = "DoNothing"
     /\ ~once) =>
        /\ last.ret = "Ok(true)"
        /\ last.log = <<>>
        /\ last.slot = last.entry

\* on_update returned under DoNothing with a configured signal and the
\* child it found running still running
C3_Witness ==
    /\ Returned("on_update")
    /\ last.observed = "true"
    /\ on_busy_update = "DoNothing"
    /\ ~once
    /\ signal = "SIGUSR1"
    /\ last.entry.id \in last.alive

\* C4: if once is set and on_update returns Ok(false), no child of the
\* handler is running at the return.
C4_OnceNoChildRunning ==
    (once /\ Returned("on_update") /\ last.ret = "Ok(false)") => last.alive = {}

\* on_update returned Ok(false) after it was entered with a running child and
\* spawned another
C4_Witness ==
    /\ once
    /\ Returned("on_update")
    /\ last.ret = "Ok(false)"
    /\ last.entryRunning
    /\ \E i \in 1..Len(last.log) : last.log[i].op = "spawn" /\ last.log[i].res = "Ok"

LastIdx == 1..Len(last.log)

\* C11: under Restart, a child found running on entry is first sent sig (the
\* configured signal, else SIGTERM), then waited for, and the replacement is
\* spawned only after the wait returned and the original has exited; after
\* an Ok return a new child is in the slot.
C11_RestartSignalWaitSpawn ==
    (Returned("on_update") /\ last.entryRunning /\ on_busy_update = "Restart") =>
        /\ last.observed = "true" =>
            /\ Len(last.log) >= 1
            /\ last.log[1].op = "signal"
            /\ last.log[1].id = last.entry.id
            /\ last.log[1].sig = (IF signal = NoSignal THEN "SIGTERM" ELSE signal)
            /\ \A i \in LastIdx :
                last.log[i].op = "spawn" =>
                    \E j \in 1..(i - 1) :
                        /\ last.log[j].op = "wait"
                        /\ last.log[j].id = last.entry.id
                        /\ last.log[j].res = "Ok"
                        /\ j > 1
        /\ \A i \in LastIdx : last.log[i].op = "kill" => ~last.log[i].hit
        /\ last.ret # "Err" =>
            /\ last.slot.variant # "None"
            /\ last.slot.id # last.entry.id
            /\ \E i \in LastIdx :
                last.log[i].op = "spawn" /\ last.log[i].res = "Ok" /\ last.log[i].id = last.slot.id

\* on_update returned Ok(true) under Restart with SIGUSR1 configured, after
\* the signal reached the running child
C11_Witness ==
    /\ Returned("on_update")
    /\ last.entryRunning
    /\ last.observed = "true"
    /\ on_busy_update = "Restart"
    /\ signal = "SIGUSR1"
    /\ last.ret = "Ok(true)"
    /\ last.log[1].hit
    /\ last.slot.id \in last.alive

\* C12: under Queue, on_update sends no signal and no kill to the child that
\* was running on entry while that child is alive; it spawns only after the
\* wait for that child returned; a configured signal sent by the once block
\* goes to the replacement.
C12_QueueNeverSignalsOriginal ==
    (Returned("on_update") /\ last.entryRunning /\ on_busy_update = "Queue") =>
        /\ \A i \in LastIdx :
            (last.log[i].op \in {"signal", "kill"} /\ last.log[i].id = last.entry.id) =>
                ~last.log[i].hit
        /\ \A i \in LastIdx :
            last.log[i].op = "signal" =>
                /\ last.log[i].id # last.entry.id
                /\ last.log[i].sig = signal
                /\ once
        /\ last.observed = "true" =>
            \A i \in LastIdx :
                last.log[i].op = "spawn" =>
                    \E j \in 1..(i - 1) :
                        /\ last.log[j].op = "wait"
                        /\ last.log[j].id = last.entry.id
                        /\ last.log[j].res = "Ok"

\* on_update returned Ok(false) under Queue with once and SIGUSR1 set, after
\* it waited for the running child and signalled the replacement
C12_Witness ==
    /\ Returned("on_update")
    /\ last.entryRunning
    /\ last.observed = "true"
    /\ on_busy_update = "Queue"
    /\ once
    /\ signal = "SIGUSR1"
    /\ last.ret = "Ok(false)"
    /\ \E i \in LastIdx : last.log[i].op = "signal" /\ last.log[i].hit

\* C14: on_manual returns Err only when the lock is poisoned; the lock is
\* never poisoned, so every on_manual call returns Ok(true), whether or not
\* clearing the screen or creating the process failed.
C14_ManualErrOnlyOnPoison == Returned("on_manual") => last.ret = "Ok(true)"

C16_BlockedSignalForwarded ==
    (Step = "waiting" /\ pending \notin {NoSignal, "SIGCHLD"}) ~> (pending = NoSignal)

\* C17: the slot changes only in a spawn step that succeeds, which stores the
\* process it has just created under the variant use_process_group selects;
\* no other step (signal, kill, is_running, wait, on the main thread or in the
\* callback) changes the variant or the handle, and a slot that holds a child
\* never becomes None again: a reaped child stays until the next spawn.
C17_SlotChangedOnlyBySpawn ==
    [][/\ child_process' # child_process =>
            /\ Step = "spawn"
            /\ child_process'.variant = (IF use_process_group THEN "Grouped" ELSE "Ungrouped")
            /\ child_process'.id \in ProcIds
            /\ proc[child_process'.id] = "unborn"
            /\ proc'[child_process'.id] = "running"
       /\ child_process.variant # "None" => child_process'.variant # "None"]_vars

\* the child on_manual spawned has exited and the callback has reaped it on
\* SIGCHLD: the slot still holds it
C17_Witness ==
    /\ Returned("on_manual")
    /\ last.ret = "Ok(true)"
    /\ child_process = last.slot
    /\ child_process.variant = "Grouped"
    /\ proc[child_process.id] = "reaped"
    /\ cbLast = [sig |-> "SIGCHLD", op |-> "is_running", res |-> "false"]

\* C18: under Signal and Restart, when the check of on_update saw the child
\* running, the signal that follows is delivered to that child while it is
\* still running.
C18_SignalFindsChildRunning ==
    (Returned("on_update") /\ on_busy_update \in {"Signal", "Restart"} /\ last.observed = "true") =>
        /\ last.log # <<>>
        /\ last.log[1].op = "signal"
        /\ last.log[1].id = last.entry.id
        /\ last.log[1].hit

\* C20: when a call ends in a failed spawn, the slot holds the handle it held
\* on entry and no process was created; if clearing the screen failed, spawn
\* sent no kill; if creating the process failed and the slot held a child,
\* the kill of that child came just before, and a kill that succeeded on the
\* running child left it not running.
C20_FailedSpawnKeepsSlot ==
    LET n == Len(last.log)
    IN  (last.fn \in {"on_manual", "on_update"} /\ last.ret = "Err" /\ n >= 1
            /\ last.log[n].op \in {"clear", "spawn"}) =>
            /\ last.log[n].res = "Err"
            /\ last.slot = last.entry
            /\ child_process = last.entry
            /\ proc[calls] = "unborn"
            /\ last.log[n].op = "clear" => \A i \in LastIdx : last.log[i].op # "kill"
            /\ (last.log[n].op = "spawn" /\ last.entry.variant # "None") =>
                  /\ n >= 2
                  /\ last.log[n - 1].op = "kill"
                  /\ last.log[n - 1].id = last.entry.id
                  /\ (last.log[n - 1].res = "Ok" /\ last.log[n - 1].hit) =>
                        last.entry.id \notin last.alive

\* on_manual found a child running, killed it, failed to create the new
\* process and returned Err with no child running
C20_Witness ==
    /\ Returned("on_manual")
    /\ last.ret = "Err"
    /\ last.entryRunning
    /\ Len(last.log) = 2
    /\ last.log[1].op = "kill" /\ last.log[1].hit /\ last.log[1].res = "Ok"
    /\ last.log[2].op = "spawn" /\ last.log[2].res = "Err"
    /\ last.alive = {}
    /\ child_process = last.entry

(***************************************************************************)
(* Properties of watch, checked under SpecWatch.                           *)
(***************************************************************************)
Born == {i \in ProcIds : proc[i] # "unborn"}

\* C13: an on_update call that does not fail returns Ok(false) exactly when
\* once is set, and then its last steps were the configured signal (if any)
\* to the child in the slot followed by a successful wait; watch returns Ok
\* only with once set, having made exactly one on_update call, and with once
\* set it never makes a second on_update call nor spawns a second child.
C13_OnceStopsWatch ==
    /\ (Returned("on_update") /\ last.ret # "Err") =>
          /\ (last.ret = "Ok(false)") <=> once
          /\ once =>
                LET n == Len(last.log)
                IN  /\ n >= 1
                    /\ last.log[n].op = "wait" /\ last.log[n].res = "Ok"
                    /\ signal # NoSignal =>
                          /\ n >= 2
                          /\ last.log[n - 1].op = "signal"
                          /\ last.log[n - 1].sig = signal
                          /\ last.log[n - 1].id = last.slot.id
    /\ wpc = "ok" => (once /\ updates = 1)
    /\ once => (updates <= 1 /\ Cardinality(Born) <= 1)

\* watch with once and run_initially returned Ok after its one on_update
\* call, which spawned the only child, signalled it and waited for it
C13_Witness ==
    /\ once
    /\ run_initially
    /\ signal = "SIGUSR1"
    /\ wpc = "ok"
    /\ updates = 1
    /\ Returned("on_update")
    /\ last.ret = "Ok(false)"
    /\ Cardinality(Born) = 1
    /\ \E i \in LastIdx : last.log[i].op = "signal" /\ last.log[i].hit

\* C19: when the backend has dropped every Sender it owns, the blocking
\* receive of wait_fs on the empty channel fails, on the fallback path and
\* on the other: the channel is disconnected.
C19_BackendGoneIsObserved ==
    (wpc = "wait_fs" /\ fpc = "A" /\ rx = <<>> /\ ~backend) => Disconnected(tx, backend)

====
